---- MODULE Spec2Model ----
(***************************************************************************)
(* Model of the Tetfu (fumen) codec of scripts/fumen-parser.js.            *)
(*                                                                         *)
(* Strings are sequences of UTF-16 code units (naturals); only characters  *)
(* of the basic plane are used, so `for (const char of str)` and           *)
(* charCodeAt(0) see one code unit per character.  Sequences are 1-based,  *)
(* the source's indices are 0-based: source index i is element i + 1.      *)
(***************************************************************************)
EXTENDS Integers, Sequences, FiniteSets, TLC

VARIABLES pc, pages, text, wire, dec, pct

vars == <<pc, pages, text, wire, dec, pct>>

----------------------------------------------------------------------------
(* Bounds of the model *)

MaxPages == 2
MaxCommentLen == 2
MaxFillers == 1
MaxStrLen == 2

----------------------------------------------------------------------------
(* Constants of the program *)

FIELD_WIDTH == 10
FIELD_HEIGHT == 24
FIELD_NUM_CELLS == FIELD_WIDTH * FIELD_HEIGHT

\* "v115@"
FUMEN_VERSION == <<118, 49, 49, 53, 64>>

\* 'ABCDEFGHIJKLMNOPQRSTUVWXYZabcdefghijklmnopqrstuvwxyz0123456789+/'
ENCODE_TABLE ==
  <<65, 66, 67, 68, 69, 70, 71, 72, 73, 74, 75, 76, 77,
    78, 79, 80, 81, 82, 83, 84, 85, 86, 87, 88, 89, 90,
    97, 98, 99, 100, 101, 102, 103, 104, 105, 106, 107, 108, 109,
    110, 111, 112, 113, 114, 115, 116, 117, 118, 119, 120, 121, 122,
    48, 49, 50, 51, 52, 53, 54, 55, 56, 57, 43, 47>>

\* '?', the filler character skipped by decode
FILLER == 63

\* '%' and ' '
PERCENT == 37
SPACE == 32

Min(a, b) == IF a < b THEN a ELSE b

----------------------------------------------------------------------------
(* Alphabet digit codec *)

\* DECODE_TABLE.get(char) || 0 : the value of a symbol, 0 for an unknown one
DECODE_TABLE(char) ==
  IF \E i \in 1..64 : ENCODE_TABLE[i] = char
  THEN (CHOOSE i \in 1..64 : ENCODE_TABLE[i] = char) - 1
  ELSE 0

RECURSIVE unpollBigEndian(_, _)
unpollBigEndian(value, numChars) ==
  IF numChars = 0 THEN <<>>
  ELSE Append(unpollBigEndian(value \div 64, numChars - 1),
              ENCODE_TABLE[(value % 64) + 1])

RECURSIVE unpoll(_, _)
unpoll(value, numChars) ==
  IF numChars = 0 THEN <<>>
  ELSE <<ENCODE_TABLE[(value % 64) + 1]>> \o unpoll(value \div 64, numChars - 1)

RECURSIVE pollValue(_, _, _)
pollValue(data, pos, count) ==
  IF count = 0 THEN 0
  ELSE data[pos + 1] + 64 * pollValue(data, pos + 1, count - 1)

\* ok = FALSE stands for the thrown Error; pos is pos.value after the call
poll(data, pos, count) ==
  IF pos + count > Len(data)
  THEN [ok |-> FALSE, value |-> 0, pos |-> pos]
  ELSE [ok |-> TRUE, value |-> pollValue(data, pos, count), pos |-> pos + count]

----------------------------------------------------------------------------
(* Percent text codec *)

\* one hex digit (0..15) as an upper-case character
HexChar(d) == IF d < 10 THEN 48 + d ELSE 55 + d

\* code.toString(16).toUpperCase()
RECURSIVE toHex(_)
toHex(code) ==
  IF code < 16 THEN <<HexChar(code)>>
  ELSE Append(toHex(code \div 16), HexChar(code % 16))

\* the characters that pass through percentEncode unchanged
IsUnreserved(code) ==
  \/ (code >= 48 /\ code <= 57)
  \/ (code >= 65 /\ code <= 90)
  \/ (code >= 97 /\ code <= 122)
  \/ code = 45 \/ code = 95 \/ code = 46 \/ code = 126

\* percentEncode without the leading '0' of a one-digit escape
percentEncodeCharNoPad(code) ==
  IF IsUnreserved(code) THEN <<code>> ELSE <<PERCENT>> \o toHex(code)

percentEncodeChar(code) ==
  IF IsUnreserved(code) THEN <<code>>
  ELSE LET hex == toHex(code)
       IN <<PERCENT>> \o (IF Len(hex) < 2 THEN <<48>> ELSE <<>>) \o hex

RECURSIVE percentEncode(_)
percentEncode(str) ==
  IF str = <<>> THEN <<>>
  ELSE percentEncodeChar(Head(str)) \o percentEncode(Tail(str))

\* /^[0-9A-Fa-f]$/ on one character
IsHexChar(c) ==
  \/ (c >= 48 /\ c <= 57)
  \/ (c >= 65 /\ c <= 70)
  \/ (c >= 97 /\ c <= 102)

\* the value of one hex character, as parseInt(_, 16) reads it
HexValue(c) ==
  IF c <= 57 THEN c - 48 ELSE IF c <= 70 THEN c - 55 ELSE c - 87

\* the loop of percentDecode from source index i on
RECURSIVE percentDecodeFrom(_, _)
percentDecodeFrom(str, i) ==
  IF i >= Len(str) THEN <<>>
  ELSE IF /\ str[i + 1] = PERCENT
          /\ i + 2 < Len(str)
          /\ IsHexChar(str[i + 2])
          /\ IsHexChar(str[i + 3])
       THEN <<16 * HexValue(str[i + 2]) + HexValue(str[i + 3])>>
              \o percentDecodeFrom(str, i + 3)
       ELSE <<str[i + 1]>> \o percentDecodeFrom(str, i + 1)

percentDecode(str) == percentDecodeFrom(str, 0)
----------------------------------------------------------------------------
(* Data model *)

\* new Piece()
NewPiece == [type |-> 0, rotation |-> 2, location |-> 0]

\* new Flags()
NewFlags ==
  [raise |-> FALSE, mirror |-> FALSE, color |-> TRUE, lock |-> TRUE,
   comment |-> <<>>]

\* new FumenPage()
NewFumenPage ==
  [field |-> [c \in 1..FIELD_NUM_CELLS |-> 0],
   piece |-> NewPiece,
   flags |-> NewFlags]

----------------------------------------------------------------------------
(* Fumen.encode *)

\* currentPage.field[i] - prevPage.field[i] + 8
CellDiff(cur, prev, i) == cur[i + 1] - prev[i + 1] + 8

\* a run boundary that is only looked for from the third cell on
RunBreakLate(i, diff, lastDiff) == i > 1 /\ diff # lastDiff

\* the test that closes a run before cell i
RunBreak(i, diff, lastDiff) == i > 0 /\ diff # lastDiff

\* The runs the field loop emits from the run that starts at source index i:
\* the run ends before the first later cell at which the loop's test closes
\* it (or at the end of the field), and carries the loop's lastDiff, the
\* diff of its last cell, and its diffCount.
RECURSIVE FieldRunsFrom(_, _, _)
FieldRunsFrom(cur, prev, i) ==
  LET Closes(j) ==
        /\ j < FIELD_NUM_CELLS
        /\ RunBreak(j, CellDiff(cur, prev, j), CellDiff(cur, prev, j - 1))
      next == CHOOSE j \in (i + 1)..FIELD_NUM_CELLS :
                 /\ j = FIELD_NUM_CELLS \/ Closes(j)
                 /\ \A k \in (i + 1)..(j - 1) : ~Closes(k)
      run == [diff |-> CellDiff(cur, prev, next - 1), count |-> next - i]
  IN IF next = FIELD_NUM_CELLS THEN <<run>>
     ELSE <<run>> \o FieldRunsFrom(cur, prev, next)

FieldRuns(cur, prev) == FieldRunsFrom(cur, prev, 0)

\* lastDiff * FIELD_NUM_CELLS + diffCount - 1
RunValue(run) == run.diff * FIELD_NUM_CELLS + run.count - 1

RECURSIVE EncodeRuns(_)
EncodeRuns(runs) ==
  IF runs = <<>> THEN <<>>
  ELSE unpoll(RunValue(Head(runs)), 2) \o EncodeRuns(Tail(runs))

EncodeField(cur, prev) == EncodeRuns(FieldRuns(cur, prev))

Bit(b) == IF b THEN 1 ELSE 0

\* the packing with the type reduced to its radix first
DescriptorValueTypeMod8(page) ==
  LET v1 == Bit(~page.flags.lock)
      v2 == Bit(Len(page.flags.comment) > 0) + v1 * 2
      v3 == Bit(page.flags.color) + v2 * 2
      v4 == Bit(page.flags.mirror) + v3 * 2
      v5 == Bit(page.flags.raise) + v4 * 2
      v6 == page.piece.location + v5 * FIELD_NUM_CELLS
      v7 == page.piece.rotation + v6 * 4
  IN (page.piece.type % 8) + v7 * 8

\* the packing with the lock bit stored as it is
DescriptorValueLockPlain(page) ==
  LET v1 == Bit(page.flags.lock)
      v2 == Bit(Len(page.flags.comment) > 0) + v1 * 2
      v3 == Bit(page.flags.color) + v2 * 2
      v4 == Bit(page.flags.mirror) + v3 * 2
      v5 == Bit(page.flags.raise) + v4 * 2
      v6 == page.piece.location + v5 * FIELD_NUM_CELLS
      v7 == page.piece.rotation + v6 * 4
  IN page.piece.type + v7 * 8

\* the value written with unpoll(value, 3)
DescriptorValue(page) ==
  LET v1 == Bit(~page.flags.lock)
      v2 == Bit(Len(page.flags.comment) > 0) + v1 * 2
      v3 == Bit(page.flags.color) + v2 * 2
      v4 == Bit(page.flags.mirror) + v3 * 2
      v5 == Bit(page.flags.raise) + v4 * 2
      v6 == page.piece.location + v5 * FIELD_NUM_CELLS
      v7 == page.piece.rotation + v6 * 4
  IN page.piece.type + v7 * 8

\* escapedComment[i + j], or ' ' past the end
CharAt(str, k) == IF k < Len(str) THEN str[k + 1] ELSE SPACE

ChunkValue(escaped, i) ==
  (CharAt(escaped, i) - 32)
  + (CharAt(escaped, i + 1) - 32) * 96
  + (CharAt(escaped, i + 2) - 32) * 96 * 96
  + (CharAt(escaped, i + 3) - 32) * 96 * 96 * 96

RECURSIVE EncodeChunksFrom(_, _)
EncodeChunksFrom(escaped, i) ==
  IF i >= Len(escaped) THEN <<>>
  ELSE unpoll(ChunkValue(escaped, i), 5) \o EncodeChunksFrom(escaped, i + 4)

EncodeComment(comment) ==
  LET escapedComment == percentEncode(comment)
  IN unpoll(Len(escapedComment), 2) \o EncodeChunksFrom(escapedComment, 0)

\* what one iteration of the page loop appends to result
EncodePage(currentPage, prevPage) ==
  EncodeField(currentPage.field, prevPage.field)
    \o unpoll(DescriptorValue(currentPage), 3)
    \o (IF Len(currentPage.flags.comment) > 0
        THEN EncodeComment(currentPage.flags.comment)
        ELSE <<>>)

RECURSIVE EncodePagesFrom(_, _, _)
EncodePagesFrom(pgs, k, prevPage) ==
  IF k > Len(pgs) THEN <<>>
  ELSE EncodePage(pgs[k], prevPage) \o EncodePagesFrom(pgs, k + 1, pgs[k])

encode(pgs) == FUMEN_VERSION \o EncodePagesFrom(pgs, 1, NewFumenPage)
----------------------------------------------------------------------------
(* Fumen.decode *)

\* data.startsWith(prefix) weakened to "prefix occurs somewhere in data"
includes(data, prefix) ==
  \E k \in 0..Len(data) :
     /\ k + Len(prefix) <= Len(data)
     /\ SubSeq(data, k + 1, k + Len(prefix)) = prefix

\* data.startsWith(prefix)
startsWith(data, prefix) ==
  /\ Len(data) >= Len(prefix)
  /\ SubSeq(data, 1, Len(prefix)) = prefix

\* data.substring(start)
substring(data, start) == SubSeq(data, start + 1, Len(data))

\* the digit loop with the filler mapped to a digit instead of skipped
RECURSIVE NumDataKeepFiller(_)
NumDataKeepFiller(data) ==
  IF data = <<>> THEN <<>>
  ELSE <<DECODE_TABLE(Head(data))>> \o NumDataKeepFiller(Tail(data))

\* numData: one digit per character of data that is not the filler
RECURSIVE NumData(_)
NumData(data) ==
  IF data = <<>> THEN <<>>
  ELSE (IF Head(data) # FILLER THEN <<DECODE_TABLE(Head(data))>> ELSE <<>>)
         \o NumData(Tail(data))

\* Math.floor(value / FIELD_NUM_CELLS) and value % FIELD_NUM_CELLS + 1
RunDiff(value) == value \div FIELD_NUM_CELLS

RunRepeatNoBias(value) == value % FIELD_NUM_CELLS

RunRepeat(value) == (value % FIELD_NUM_CELLS) + 1

\* The locals of one call of decode.  pc is the position in the code, ret the
\* returned value ("pending" until the call returns, "null", or "fumen" for
\* the Fumen holding pages).  pageStart is a history field: the cursor at
\* which the page being parsed began.
DecodeIdle ==
  [pc |-> "idle", ret |-> "pending", numData |-> <<>>, pos |-> 0,
   pages |-> <<>>, prevPage |-> NewFumenPage, currentPage |-> NewFumenPage,
   cellCount |-> 0, len |-> 0, numChunks |-> 0, i |-> 0,
   escapedComment |-> <<>>, pageStart |-> 0]

\* a catch block that hands back the pages parsed so far
CatchPartial(d) == [d EXCEPT !.pc = "done", !.ret = "fumen"]

\* catch(e) { return null; }
Catch(d) == [d EXCEPT !.pc = "done", !.ret = "null"]

\* entry of decode: the tag test, numData, and the locals
DecodeBegin(data) ==
  IF ~startsWith(data, FUMEN_VERSION)
  THEN [DecodeIdle EXCEPT !.pc = "done", !.ret = "null"]
  ELSE [DecodeIdle EXCEPT
          !.pc = "loop",
          !.numData = NumData(substring(data, Len(FUMEN_VERSION)))]

\* while(pos.value < numData.length), and the return after the loop
LoopTest(d) ==
  IF d.pos < Len(d.numData)
  THEN [d EXCEPT !.pc = "field", !.currentPage = NewFumenPage,
                 !.cellCount = 0, !.pageStart = d.pos]
  ELSE [d EXCEPT !.pc = "done", !.ret = "fumen"]

\* a fill loop without the test cellCount < FIELD_NUM_CELLS
RunCellsNoCut(repeat, cellCount) == repeat

\* how many cells for(i < repeat && cellCount < FIELD_NUM_CELLS) fills
RunCells(repeat, cellCount) == Min(repeat, FIELD_NUM_CELLS - cellCount)

\* one iteration of while(cellCount < FIELD_NUM_CELLS)
ReadRun(d) ==
  LET p == poll(d.numData, d.pos, 2)
  IN IF ~p.ok THEN Catch(d)
     ELSE LET diff == RunDiff(p.value)
              repeat == RunRepeat(p.value)
              filled == RunCells(repeat, d.cellCount)
              cellCount == d.cellCount + filled
          IN [d EXCEPT
                !.pos = p.pos,
                !.currentPage.field =
                   [c \in 1..FIELD_NUM_CELLS |->
                      IF c > d.cellCount /\ c <= cellCount
                      THEN d.prevPage.field[c] + diff - 8
                      ELSE d.currentPage.field[c]],
                !.cellCount = cellCount,
                !.pc = IF cellCount < FIELD_NUM_CELLS
                       THEN "field" ELSE "descriptor"]

\* the 3-digit descriptor and its unpacking
ReadDescriptor(d) ==
  LET p == poll(d.numData, d.pos, 3)
  IN IF ~p.ok THEN Catch(d)
     ELSE LET v0 == p.value
              v1 == v0 \div 8
              v2 == v1 \div 4
              v3 == v2 \div FIELD_NUM_CELLS
              v4 == v3 \div 2
              v5 == v4 \div 2
              v6 == v5 \div 2
              v7 == v6 \div 2
              hasComment == (v6 % 2 # 0)
          IN [d EXCEPT
                !.pos = p.pos,
                !.currentPage.piece =
                   [type |-> v0 % 8, rotation |-> v1 % 4,
                    location |-> v2 % FIELD_NUM_CELLS],
                !.currentPage.flags =
                   [raise |-> (v3 % 2 # 0), mirror |-> (v4 % 2 # 0),
                    color |-> (v5 % 2 # 0), lock |-> (v7 % 2 = 0),
                    comment |-> <<>>],
                !.pc = IF hasComment THEN "commentLen" ELSE "addPage"]

\* the 2-digit comment length
ReadCommentLen(d) ==
  LET p == poll(d.numData, d.pos, 2)
  IN IF ~p.ok THEN Catch(d)
     ELSE [d EXCEPT !.pos = p.pos, !.len = p.value,
                    !.numChunks = (p.value + 3) \div 4,
                    !.i = 0, !.escapedComment = <<>>, !.pc = "chunk"]

\* the four characters of one chunk value
ChunkChars(chunkValue) ==
  <<(chunkValue % 96) + 32,
    ((chunkValue \div 96) % 96) + 32,
    ((chunkValue \div (96 * 96)) % 96) + 32,
    ((chunkValue \div (96 * 96 * 96)) % 96) + 32>>

\* one iteration of for(i < numChunks), or the assignment after the loop
ReadChunk(d) ==
  IF d.i < d.numChunks
  THEN LET p == poll(d.numData, d.pos, 5)
       IN IF ~p.ok THEN Catch(d)
          ELSE [d EXCEPT !.pos = p.pos, !.i = d.i + 1,
                         !.escapedComment = @ \o ChunkChars(p.value)]
  ELSE [d EXCEPT
          !.currentPage.flags.comment =
             percentDecode(SubSeq(d.escapedComment, 1,
                                  Min(d.len, Len(d.escapedComment)))),
          !.pc = "addPage"]

\* fumen.addPage(currentPage); prevPage = currentPage
AddPage(d) ==
  [d EXCEPT !.pages = Append(d.pages, d.currentPage),
            !.prevPage = d.currentPage,
            !.len = 0, !.numChunks = 0, !.i = 0, !.escapedComment = <<>>,
            !.pc = "loop"]

\* the step decode takes from the locals d
Step(d) ==
  CASE d.pc = "loop" -> LoopTest(d)
    [] d.pc = "field" -> ReadRun(d)
    [] d.pc = "descriptor" -> ReadDescriptor(d)
    [] d.pc = "commentLen" -> ReadCommentLen(d)
    [] d.pc = "chunk" -> ReadChunk(d)
    [] d.pc = "addPage" -> AddPage(d)
    [] OTHER -> d

RECURSIVE RunDecode(_)
RunDecode(d) == IF d.pc = "done" THEN d ELSE RunDecode(Step(d))

\* what decode returns: null, or the Fumen with its pages
Returned(d) ==
  IF d.ret = "fumen" THEN [null |-> FALSE, pages |-> d.pages]
  ELSE [null |-> TRUE, pages |-> <<>>]

decode(data) == Returned(RunDecode(DecodeBegin(data)))
----------------------------------------------------------------------------
(* Inputs *)

ZeroField == [c \in 1..FIELD_NUM_CELLS |-> 0]

\* cells start .. start + n - 1 (source indices) hold v, the others 0
BlockField(v, start, n) ==
  [c \in 1..FIELD_NUM_CELLS |-> IF c > start /\ c <= start + n THEN v ELSE 0]

SampleFields ==
  {ZeroField} \cup
  {BlockField(v, b[1], b[2]) :
     v \in {1, 8, 9},
     b \in {<<0, 240>>, <<0, 16>>, <<0, 17>>, <<100, 17>>, <<223, 17>>,
            <<224, 16>>, <<239, 1>>}}

\* 'a', '%', line feed, U+00FF, U+3042
CommentChars == {97, 37, 10, 255, 12354}

RECURSIVE StringsUpTo(_, _)
StringsUpTo(chars, n) ==
  IF n = 0 THEN {<<>>}
  ELSE LET shorter == StringsUpTo(chars, n - 1)
       IN shorter \cup {Append(t, c) : t \in shorter, c \in chars}

Comments == StringsUpTo(CommentChars, MaxCommentLen)

Pieces ==
  [type : 0..8, rotation : 0..3, location : {0, FIELD_NUM_CELLS - 1}]

SamplePages ==
  {[field |-> f, piece |-> NewPiece, flags |-> NewFlags] : f \in SampleFields}
  \cup
  {[field |-> ZeroField, piece |-> p,
    flags |-> [raise |-> r, mirror |-> m, color |-> co, lock |-> l,
               comment |-> c]] :
     p \in Pieces, r \in BOOLEAN, m \in BOOLEAN, co \in BOOLEAN,
     l \in BOOLEAN, c \in {<<>>, <<97>>}}
  \cup
  {[field |-> ZeroField, piece |-> NewPiece,
    flags |-> [NewFlags EXCEPT !.comment = c]] : c \in Comments}

\* the pages longer lists are built from
SeqPages ==
  {NewFumenPage,
   [NewFumenPage EXCEPT !.field = BlockField(8, 0, 240)],
   [NewFumenPage EXCEPT !.field = BlockField(9, 0, 16),
                        !.piece = [type |-> 7, rotation |-> 3, location |-> 5]],
   [NewFumenPage EXCEPT !.field = BlockField(1, 100, 17),
                        !.flags.comment = <<97, 37>>,
                        !.flags.lock = FALSE]}

RECURSIVE ListsUpTo(_, _)
ListsUpTo(ps, n) ==
  IF n = 0 THEN {<<>>}
  ELSE LET shorter == ListsUpTo(ps, n - 1)
       IN shorter \cup {Append(l, p) : l \in shorter, p \in ps}

\* page lists whose second page changes one cell of the first from 0 to 1
OneCellLists ==
  {<<p, [p EXCEPT !.field[k] = 1]>> :
     p \in {NewFumenPage,
            [NewFumenPage EXCEPT !.field = BlockField(3, 0, 120)]},
     k \in 1..FIELD_NUM_CELLS}

PrevOf(pgs, k) == IF k = 1 THEN NewFumenPage ELSE pgs[k - 1]

\* every biased cell diff is in 0..17, so no run value is negative
DiffsInRange(pgs) ==
  \A k \in 1..Len(pgs) : \A i \in 0..(FIELD_NUM_CELLS - 1) :
     CellDiff(pgs[k].field, PrevOf(pgs, k).field, i) \in 0..17

PageLists ==
  {l \in {<<p>> : p \in SamplePages} \cup ListsUpTo(SeqPages, MaxPages)
           \cup OneCellLists :
     DiffsInRange(l)}

\* the page lists whose text is also sent damaged
WireLists ==
  {<<>>,
   <<[NewFumenPage EXCEPT !.piece.type = 5]>>,
   <<[NewFumenPage EXCEPT !.flags.comment = <<97>>]>>,
   <<NewFumenPage,
     [NewFumenPage EXCEPT !.field = BlockField(1, 0, 1),
                          !.flags.comment = <<37>>]>>,
   <<[NewFumenPage EXCEPT !.field = BlockField(9, 0, 240)]>>}

\* 'A' and the filler
PrefixChars == {65, FILLER}

PercentSampleChars == {0, 15, 16, 37, 45, 48, 52, 65, 70, 97, 126, 255}

PercentInputs ==
  {<<c>> : c \in 0..255} \cup StringsUpTo(PercentSampleChars, MaxStrLen)

----------------------------------------------------------------------------
(* State machine *)

WireClean == [cut |-> FALSE, fillers |-> 0, prefixed |-> FALSE]

PctIdle == [step |-> "idle", str |-> <<>>, escaped |-> <<>>, unescaped |-> <<>>]

Init ==
  /\ pc = "pages"
  /\ pages \in PageLists
  /\ text = <<>>
  /\ wire = WireClean
  /\ dec = DecodeIdle
  /\ pct = PctIdle

InitWire ==
  /\ pc = "pages"
  /\ pages \in WireLists
  /\ text = <<>>
  /\ wire = WireClean
  /\ dec = DecodeIdle
  /\ pct = PctIdle

InitPercent ==
  /\ pc = "percent"
  /\ pages = <<>>
  /\ text = <<>>
  /\ wire = WireClean
  /\ dec = DecodeIdle
  /\ pct \in {[PctIdle EXCEPT !.step = "input", !.str = s] : s \in PercentInputs}

\* text = fumen.encode()
EncodeCall ==
  /\ pc = "pages"
  /\ text' = encode(pages)
  /\ pc' = "text"
  /\ UNCHANGED <<pages, wire, dec, pct>>

\* the text loses its tail: only its first k characters arrive
Truncate ==
  /\ pc = "text"
  /\ wire = WireClean
  /\ \E k \in 0..(Len(text) - 1) : text' = SubSeq(text, 1, k)
  /\ wire' = [wire EXCEPT !.cut = TRUE]
  /\ UNCHANGED <<pc, pages, dec, pct>>

\* a filler is inserted after the tag, before source index k
InsertFiller ==
  /\ pc = "text"
  /\ ~wire.prefixed
  /\ wire.fillers < MaxFillers
  /\ startsWith(text, FUMEN_VERSION)
  /\ \E k \in Len(FUMEN_VERSION)..Len(text) :
        text' = SubSeq(text, 1, k) \o <<FILLER>> \o SubSeq(text, k + 1, Len(text))
  /\ wire' = [wire EXCEPT !.fillers = @ + 1]
  /\ UNCHANGED <<pc, pages, dec, pct>>

\* a character is put in front of the tag
Prepend ==
  /\ pc = "text"
  /\ wire = WireClean
  /\ \E c \in PrefixChars : text' = <<c>> \o text
  /\ wire' = [wire EXCEPT !.prefixed = TRUE]
  /\ UNCHANGED <<pc, pages, dec, pct>>

\* Fumen.decode(text) is called
DecodeCall ==
  /\ pc = "text"
  /\ dec' = DecodeBegin(text)
  /\ pc' = "decode"
  /\ UNCHANGED <<pages, text, wire, pct>>

DoLoopTest ==
  /\ pc = "decode"
  /\ dec.pc = "loop"
  /\ dec' = LoopTest(dec)
  /\ UNCHANGED <<pc, pages, text, wire, pct>>

DoReadRun ==
  /\ pc = "decode"
  /\ dec.pc = "field"
  /\ dec' = ReadRun(dec)
  /\ UNCHANGED <<pc, pages, text, wire, pct>>

DoReadDescriptor ==
  /\ pc = "decode"
  /\ dec.pc = "descriptor"
  /\ dec' = ReadDescriptor(dec)
  /\ UNCHANGED <<pc, pages, text, wire, pct>>

DoReadCommentLen ==
  /\ pc = "decode"
  /\ dec.pc = "commentLen"
  /\ dec' = ReadCommentLen(dec)
  /\ UNCHANGED <<pc, pages, text, wire, pct>>

DoReadChunk ==
  /\ pc = "decode"
  /\ dec.pc = "chunk"
  /\ dec' = ReadChunk(dec)
  /\ UNCHANGED <<pc, pages, text, wire, pct>>

DoAddPage ==
  /\ pc = "decode"
  /\ dec.pc = "addPage"
  /\ dec' = AddPage(dec)
  /\ UNCHANGED <<pc, pages, text, wire, pct>>

DecodeStep ==
  \/ DoLoopTest
  \/ DoReadRun
  \/ DoReadDescriptor
  \/ DoReadCommentLen
  \/ DoReadChunk
  \/ DoAddPage

PercentEncodeCall ==
  /\ pc = "percent"
  /\ pct.step = "input"
  /\ pct' = [pct EXCEPT !.step = "escaped", !.escaped = percentEncode(pct.str)]
  /\ UNCHANGED <<pc, pages, text, wire, dec>>

PercentDecodeCall ==
  /\ pc = "percent"
  /\ pct.step = "escaped"
  /\ pct' = [pct EXCEPT !.step = "unescaped",
                        !.unescaped = percentDecode(pct.escaped)]
  /\ UNCHANGED <<pc, pages, text, wire, dec>>

Next ==
  \/ EncodeCall
  \/ DecodeCall
  \/ DoLoopTest
  \/ DoReadRun
  \/ DoReadDescriptor
  \/ DoReadCommentLen
  \/ DoReadChunk
  \/ DoAddPage

NextWire ==
  \/ EncodeCall
  \/ Truncate
  \/ InsertFiller
  \/ Prepend
  \/ DecodeCall
  \/ DoLoopTest
  \/ DoReadRun
  \/ DoReadDescriptor
  \/ DoReadCommentLen
  \/ DoReadChunk
  \/ DoAddPage

NextPercent ==
  \/ PercentEncodeCall
  \/ PercentDecodeCall

Spec == Init /\ [][Next]_vars

SpecWire == InitWire /\ [][NextWire]_vars

\* decode is synchronous: once called it runs each step to its return
FairSpecWire == SpecWire /\ WF_vars(DecodeStep)

SpecPercent == InitPercent /\ [][NextPercent]_vars
----------------------------------------------------------------------------
(* Properties *)

\* decode has returned
Done == pc = "decode" /\ dec.pc = "done"

\* the text begins with the characters v 1 1 5 @
HasTag(t) ==
  /\ Len(t) >= 5
  /\ t[1] = 118 /\ t[2] = 49 /\ t[3] = 49 /\ t[4] = 53 /\ t[5] = 64

IsFiller(c) == c = 63

NotFiller(c) == c # 63

\* the text without the fillers that follow its tag
StripFillers(t) == SubSeq(t, 1, 5) \o SelectSeq(SubSeq(t, 6, Len(t)), NotFiller)

NonNull(pgs) == [null |-> FALSE, pages |-> pgs]

\* the ranges of the page fields
PieceInRange(page) ==
  /\ page.piece.type \in 0..7
  /\ page.piece.rotation \in 0..3
  /\ page.piece.location \in 0..239

\* no 17 neighbouring cells all have the biased diff 17
NoLongRun17(pgs) ==
  \A k \in 1..Len(pgs) : \A i \in 0..(240 - 17) :
     \E j \in i..(i + 16) : CellDiff(pgs[k].field, PrevOf(pgs, k).field, j) # 17

CommentBelow256(page) ==
  \A n \in 1..Len(page.flags.comment) : page.flags.comment[n] \in 0..255

\* the precondition of the round trip as first stated
ClaimedRange(pgs) ==
  /\ DiffsInRange(pgs)
  /\ \A k \in 1..Len(pgs) :
        /\ PieceInRange(pgs[k])
        /\ Len(percentEncode(pgs[k].flags.comment)) <= 4095

\* the precondition under which the round trip holds
RoundTripRange(pgs) ==
  /\ ClaimedRange(pgs)
  /\ NoLongRun17(pgs)
  /\ \A k \in 1..Len(pgs) : CommentBelow256(pgs[k])

\* C1 as stated: every page list within the claimed ranges (diffs in 0..17,
\* percent-encoded comment length at most 4095) decodes back from its
\* encoding to the same pages.
C1_RoundTripAsStated ==
  (Done /\ ClaimedRange(pages)) => Returned(dec) = NonNull(pages)

\* C1: every page list within the ranges, in which moreover no run value
\* reaches 4096 (no 17 neighbouring cells of biased diff 17) and every comment
\* character is below 256, decodes back from its encoding to a non-null Fumen
\* with the same pages in the same order.
C1_RoundTrip ==
  (Done /\ RoundTripRange(pages)) => Returned(dec) = NonNull(pages)

C1_Witness ==
  /\ Done
  /\ RoundTripRange(pages)
  /\ Len(pages) = 2
  /\ pages[2].flags.comment = <<97, 37>>
  /\ dec.ret = "fumen"

\* C2: decode of a text that does not begin with the tag returns null at
\* once: no digit is mapped, the cursor stays at 0 and no page is parsed.
C2_NoTagIsNull ==
  (pc = "decode" /\ ~HasTag(text)) =>
     /\ dec.pc = "done"
     /\ dec.ret = "null"
     /\ Returned(dec) = [null |-> TRUE, pages |-> <<>>]
     /\ dec.numData = <<>>
     /\ dec.pos = 0
     /\ dec.pages = <<>>

\* the tag at a later position, after one other character
C2_Witness ==
  /\ Done
  /\ wire.prefixed
  /\ HasTag(Tail(text))
  /\ dec.ret = "null"

AllowedEscaped ==
  (48..57) \cup (65..90) \cup (97..122) \cup {45, 95, 46, 126, 37}

\* C5: for a string of characters below 256, percentEncode yields only
\* characters of [0-9A-Za-z-_.~%] and percentDecode of it yields the string.
C5_PercentRoundTrip ==
  (\A n \in 1..Len(pct.str) : pct.str[n] \in 0..255) =>
     /\ pct.step \in {"escaped", "unescaped"} =>
           \A n \in 1..Len(pct.escaped) : pct.escaped[n] \in AllowedEscaped
     /\ pct.step = "unescaped" => pct.unescaped = pct.str

\* '%' followed by a character below 16
C5_Witness ==
  /\ pct.step = "unescaped"
  /\ pct.str = <<37, 15>>
  /\ pct.escaped = <<37, 50, 53, 37, 48, 70>>
  /\ pct.unescaped = pct.str

\* the page of concrete case 1
Case1Page ==
  [field |-> [c \in 1..240 |-> 0],
   piece |-> [type |-> 5, rotation |-> 2, location |-> 0],
   flags |-> [raise |-> FALSE, mirror |-> FALSE, color |-> TRUE,
              lock |-> TRUE, comment |-> <<>>]]

\* C6: the page of concrete case 1 encodes to the tag followed by the two
\* digits of 2159 and the three digits of 30741, that is "v115@vhVgH", and
\* that text decodes to exactly that page.
C6_Case1 ==
  pages = <<Case1Page>> =>
     /\ pc # "pages" =>
           /\ text = <<118, 49, 49, 53, 64, 118, 104, 86, 103, 72>>
           /\ text = FUMEN_VERSION \o unpoll(8 * 240 + 239, 2) \o unpoll(30741, 3)
     /\ Done => Returned(dec) = NonNull(<<Case1Page>>)

C6_Witness ==
  /\ pages = <<Case1Page>>
  /\ Done
  /\ dec.ret = "fumen"
  /\ Len(dec.pages) = 1
\* the digits the step at d needs from the stream
Need(d) ==
  CASE d.pc = "field" -> 2
    [] d.pc = "descriptor" -> 3
    [] d.pc = "commentLen" -> 2
    [] d.pc = "chunk" /\ d.i < d.numChunks -> 5
    [] OTHER -> 0

\* the step at dec needs more digits than remain
Starved == pc = "decode" /\ dec.pos + Need(dec) > Len(dec.numData)

\* a text cut or filled on the way is still the encoding of the first j pages
IsPrefixEncoding(t, j) == StripFillers(t) = encode(SubSeq(pages, 1, j))

C3_StarvedIsNull ==
  [][Starved => (dec'.pc = "done" /\ dec'.ret = "null")]_vars

C3_WholeOrNull ==
  (Done /\ HasTag(text)) =>
     /\ Returned(dec).null => Returned(dec).pages = <<>>
     /\ dec.ret = "fumen" => dec.pos = Len(dec.numData)
     /\ RoundTripRange(pages) =>
          /\ dec.ret = "fumen" <=> \E j \in 0..Len(pages) : IsPrefixEncoding(text, j)
          /\ \A j \in 0..Len(pages) :
                IsPrefixEncoding(text, j) =>
                   Returned(dec) = NonNull(SubSeq(pages, 1, j))

\* C3: a step of decode that needs more digits than remain makes decode
\* return null, whatever was parsed before; decode returns a Fumen only with
\* the cursor at the end of the digits, and for a (cut) encoding of valid
\* pages only when the text ends on a page boundary, with the pages up to it.
C3_AllOrNothing == C3_StarvedIsNull /\ []C3_WholeOrNull

\* null although the first page was parsed completely
C3_Witness ==
  /\ Done
  /\ HasTag(text)
  /\ wire.cut
  /\ dec.ret = "null"
  /\ Len(dec.pages) = 1
  /\ dec.pos > 0

\* C4: a text with fillers after its tag decodes to the same outcome as the
\* text without them, and the fillers add no digit.
C4_FillerInsensitive ==
  (pc = "decode" /\ HasTag(text)) =>
     /\ Len(dec.numData) = Len(StripFillers(text)) - 5
     /\ Done => Returned(dec) = decode(StripFillers(text))

C4_Witness ==
  /\ Done
  /\ wire.fillers > 0
  /\ \E n \in 6..Len(text) : IsFiller(text[n])
  /\ dec.ret = "fumen"
  /\ Len(dec.pages) = 2

\* page 2 equals page 1 except for one cell, 0 in page 1 and 1 in page 2
IsOneCellCase(pgs) ==
  /\ Len(pgs) = 2
  /\ pgs[2].piece = pgs[1].piece
  /\ pgs[2].flags.comment = <<>>
  /\ \E k \in 1..240 :
        /\ pgs[1].field[k] = 0
        /\ pgs[2].field = [pgs[1].field EXCEPT ![k] = 1]

\* the source index of the changed cell
ChangedCell(pgs) == (CHOOSE k \in 1..240 : pgs[2].field[k] # pgs[1].field[k]) - 1

\* the field digits of page 2 in the text: what follows the encoding of
\* page 1, without the three descriptor digits at the end
Page2FieldDigits(t) ==
  SubSeq(t, Len(encode(<<pages[1]>>)) + 1, Len(t) - 3)

\* C7 as stated: page 2 of a one-cell change is encoded in exactly two runs.
C7_TwoRunsAsStated ==
  (pc # "pages" /\ IsOneCellCase(pages)) => Len(Page2FieldDigits(text)) = 2 * 2

\* C7: page 2 of a one-cell change is encoded with the changed cell in a run
\* of its own (diff 9, length 1) between the runs of the unchanged cells
\* before and after it (diff 8): two runs when the changed cell is the first
\* or the last cell, three runs otherwise.
C7_OneCellRuns ==
  (pc # "pages" /\ IsOneCellCase(pages)) =>
     LET k == ChangedCell(pages)
         before == IF k > 0 THEN unpoll(8 * 240 + k - 1, 2) ELSE <<>>
         after == IF k < 239 THEN unpoll(8 * 240 + (239 - k) - 1, 2) ELSE <<>>
     IN /\ Page2FieldDigits(text) = before \o unpoll(9 * 240, 2) \o after
        /\ Len(Page2FieldDigits(text)) = IF k \in {0, 239} THEN 4 ELSE 6

C7_Witness ==
  /\ pc = "text"
  /\ IsOneCellCase(pages)
  /\ ChangedCell(pages) = 120
  /\ Len(Page2FieldDigits(text)) = 6

\* a single page of type 8 that is otherwise within the round-trip ranges
IsType8Case(pgs) ==
  /\ Len(pgs) = 1
  /\ pgs[1].piece.type = 8
  /\ RoundTripRange(<<[pgs[1] EXCEPT !.piece.type = 0]>>)

\* C8 as stated: a page of type 8 is encoded as the same page of type 0 and
\* decodes to it.
C8_AliasAsStated ==
  IsType8Case(pages) =>
     LET alias == [pages[1] EXCEPT !.piece.type = 0]
     IN /\ pc # "pages" => text = encode(<<alias>>)
        /\ Done => Returned(dec) = NonNull(<<alias>>)

\* type 0 and the next (rotation, location) step
Carried(page) ==
  IF page.piece.rotation < 3
  THEN [page EXCEPT !.piece.type = 0, !.piece.rotation = @ + 1]
  ELSE [page EXCEPT !.piece.type = 0, !.piece.rotation = 0,
                    !.piece.location = @ + 1]

\* C8: the type value 8 carries into the rotation: a page of type 8 is
\* encoded as the page of type 0 with the rotation one higher (rotation 0 and
\* the location one higher after rotation 3) and decodes to that page; at
\* rotation 3 and location 239 the carry goes on into the flags and the
\* result is not the page with only its type changed.
C8_TypeCarries ==
  IsType8Case(pages) =>
     IF pages[1].piece.rotation < 3 \/ pages[1].piece.location < 239
     THEN /\ pc # "pages" => text = encode(<<Carried(pages[1])>>)
          /\ Done => Returned(dec) = NonNull(<<Carried(pages[1])>>)
     ELSE Done => Returned(dec) # NonNull(<<[pages[1] EXCEPT !.piece.type = 0]>>)

C8_Witness ==
  /\ IsType8Case(pages)
  /\ Done
  /\ pages[1].piece.rotation = 1
  /\ dec.ret = "fumen"
  /\ dec.pages[1].piece = [type |-> 0, rotation |-> 2, location |-> 0]

\* the runs of all pages of the list
AllRuns(pgs) ==
  UNION {{FieldRuns(pgs[k].field, PrevOf(pgs, k).field)[n] :
            n \in 1..Len(FieldRuns(pgs[k].field, PrevOf(pgs, k).field))} :
         k \in 1..Len(pgs)}

\* the run value fits two digits and is read back as the same run
ReadsBack(run) ==
  LET digits == NumData(unpoll(RunValue(run), 2))
      value == poll(digits, 0, 2).value
  IN /\ run.diff * 240 + (run.count - 1) < 4096
     /\ RunDiff(value) = run.diff
     /\ RunRepeat(value) = run.count

\* C9 as stated: every emitted run with diff in 0..17 and length in 1..240
\* fits two digits and is read back unchanged.
C9_RunFitsAsStated ==
  pc # "pages" =>
     \A run \in AllRuns(pages) :
        (run.diff \in 0..17 /\ run.count \in 1..240) => ReadsBack(run)

\* C9: every emitted run with diff in 0..16 and length in 1..240, or with
\* diff 17 and length in 1..16, has a run value below 4096 and is read back
\* by decode as the same diff and the same length.
C9_RunFits ==
  pc # "pages" =>
     \A run \in AllRuns(pages) :
        \/ run.diff \in 0..16 /\ run.count \in 1..240
        \/ run.diff = 17 /\ run.count \in 1..16
        => ReadsBack(run)

C9_Witness ==
  /\ pc = "text"
  /\ [diff |-> 17, count |-> 16] \in AllRuns(pages)
  /\ [diff |-> 8, count |-> 224] \in AllRuns(pages)

C10_Bounded ==
  pc = "decode" =>
     /\ dec.pos \in 0..Len(dec.numData)
     /\ HasTag(text) => Len(dec.numData) = Len(StripFillers(text)) - 5
     /\ dec.cellCount \in 0..240
     /\ dec.pc = "field" =>
           /\ dec.cellCount < 240
           /\ dec.pos - dec.pageStart <= 2 * dec.cellCount
     /\ dec.pc \in {"descriptor", "commentLen", "chunk", "addPage"} =>
           /\ dec.cellCount = 240
           /\ dec.pos - dec.pageStart <= 2 * 240 + 3 + 2 + 5 * dec.numChunks
     /\ dec.pc = "addPage" => dec.pos - dec.pageStart >= 5
     /\ dec.pos >= 5 * Len(dec.pages)

C10_Steps ==
  [][/\ dec'.pos >= dec.pos
     /\ (pc = "decode" /\ dec'.ret # "null") => dec'.pos = dec.pos + Need(dec)
     /\ (pc = "decode" /\ dec.pc = "field" /\ dec'.ret # "null") =>
           dec'.cellCount > dec.cellCount]_vars

C10_Returns == (pc = "decode") ~> (Done /\ dec.ret \in {"null", "fumen"})

\* C10: the cursor stays within 0..N and never decreases, a successful poll
\* advances it by its digit count, every run read fills at least one cell
\* and never more than 240 are filled, a completed page has consumed at
\* least 5 digits, and a call of decode returns null or a page list.
C10_Terminates == []C10_Bounded /\ C10_Steps /\ C10_Returns

\* a run cut off at the end of the field
C10_Witness ==
  /\ pc = "decode"
  /\ dec.pc = "descriptor"
  /\ dec.pos - dec.pageStart = 4
  /\ RunRepeat(pollValue(dec.numData, dec.pos - 2, 2)) > 240 - 224

====
